---- MODULE Spec2Model ----
(***************************************************************************)
(* Model of the MemeBot backend: the trend lifecycle tracker               *)
(* (services/meme_scraper.py), the content generation pipeline             *)
(* (bot/content_generator.py, services/llm_service.py), the scheduled jobs *)
(* (bot/scheduler.py, bot/twitter_client.py) and the review transitions of *)
(* the content queue (api/server.py).                                      *)
(*                                                                         *)
(* Scores are integers.  A velocity is kept in hundredths of a percent,    *)
(* which is what round(velocity, 2) leaves: 16667 stands for 166.67.       *)
(***************************************************************************)
EXTENDS Integers, Sequences, FiniteSets, TLC

VARIABLES
  trends,                  \* table meme_trends: name -> row, or NoTrend
  name_index,              \* unique index on meme_trends.name: rows held, INSERT refused
  ingest_log,              \* what the log of the followed names and jobs tells (for properties)
  queue,                   \* table content_queue: rows in id order
  tweets,                  \* table tweets: rows in id order
  analytics,               \* table bot_analytics: rows in id order
  today,                   \* the day datetime.utcnow() falls on, as a number
  twitter,                 \* number of tweets the publishing service accepted
  content_generator_mode,  \* Config.CONTENT_GENERATOR_MODE
  ing,                     \* the executions of MemeBot.scrape_trends, by job id
  ex,                      \* the execution of the primary-content job
  executions,              \* number of primary-content executions started
  bot_enabled,             \* Config.BOT_ENABLED
  jobs,                    \* ids in the scheduler's job store
  instances,               \* job id -> executions of it in flight
  missed,                  \* ids that had a run skipped (logged by the scheduler)
  sched_state,             \* state of the BackgroundScheduler
  is_running,              \* MemeBot.is_running
  bot_pc,                  \* where start() and stop() of the bot stand
  hist,                    \* what the scheduler's log tells of its past (read by properties)
  cls                      \* the one call or job a specification follows on its own:
                           \* _determine_lifecycle_stage, _get_media_insights, two
                           \* executions in both orders, or update_tweet_metrics

storeVars == <<trends, queue, tweets>>

schedVars == <<jobs, instances, missed, sched_state, is_running, bot_pc, hist>>

vars == <<trends, name_index, ingest_log, queue, tweets, analytics, today, twitter, content_generator_mode, ing, ex,
          executions, bot_enabled, schedVars, cls>>

(***************************************************************************)
(* Bounds and input sets                                                   *)
(***************************************************************************)
MaxBatch == 2

Names == {"X", "Y"}

RawScores == {0, 15, 40, 70}

NoTrend == [absent |-> TRUE]

Stages == {"new", "rising", "stable", "peak", "declining"}

\* the two job ids bound to MemeBot.scrape_trends
ScrapeJobs == {"scrape_trends", "initial_scrape"}

Observations == [name : Names, popularity_score : RawScores]

(***************************************************************************)
(* services/meme_scraper.py                                                *)
(***************************************************************************)
\* round(n / d, 0) with ties to even, for d > 0
RoundHalfEven(n, d) ==
  LET q == n \div d
      r == n % d
  IN IF 2 * r < d THEN q
     ELSE IF 2 * r > d THEN q + 1
     ELSE IF q % 2 = 0 THEN q ELSE q + 1

\* round((a - b) / b * 100, 2), in hundredths of a percent
velocity_of(a, b) == RoundHalfEven((a - b) * 10000, b)

\* mutation of determine_lifecycle_stage: the thresholds taken inclusively
determine_lifecycle_stage_inclusive(popularity_score, velocity) ==
  IF popularity_score <= 20
  THEN IF velocity >= 5000 THEN "rising" ELSE "new"
  ELSE IF popularity_score <= 60
  THEN IF velocity >= 2000 THEN "rising"
       ELSE IF velocity <= -2000 THEN "declining"
       ELSE "stable"
  ELSE IF velocity <= -1000 THEN "declining" ELSE "peak"

determine_lifecycle_stage(popularity_score, velocity) ==
  IF popularity_score < 20
  THEN IF velocity > 5000 THEN "rising" ELSE "new"
  ELSE IF popularity_score < 60
  THEN IF velocity > 2000 THEN "rising"
       ELSE IF velocity < -2000 THEN "declining"
       ELSE "stable"
  ELSE IF velocity < -1000 THEN "declining" ELSE "peak"

\* _calculate_popularity_score with max_score 100, in whole points:
\* min((upvotes * 0.7 + num_comments * 10 * 0.3) / 10000 * 100, 100)
calculate_popularity_score(upvotes, num_comments) ==
  LET score == RoundHalfEven(7 * upvotes + 30 * num_comments, 1000)
  IN IF score < 100 THEN score ELSE 100

FirstDay == 1

\* datetime.utcnow() as read while the item is processed, in days: the day
\* noted with the item, and the first day for an item that notes none
utcnow(trend_data) ==
  IF "at" \in DOMAIN trend_data THEN trend_data.at ELSE FirstDay

\* mutation of update_existing: the velocity taken against the score the row
\* held before the update
update_existing_against_old(existing, trend_data) ==
  LET e1 == [existing EXCEPT !.popularity_score = trend_data.popularity_score,
                             !.last_seen = utcnow(trend_data)]
      e2 == IF existing.popularity_score > 0
            THEN [e1 EXCEPT !.velocity =
                     velocity_of(trend_data.popularity_score, existing.popularity_score)]
            ELSE e1
  IN [e2 EXCEPT !.lifecycle_stage =
         determine_lifecycle_stage(e2.popularity_score, e2.velocity)]

\* the `if existing:` branch: the score is overwritten first, and the
\* velocity is then computed from the overwritten attribute
update_existing(existing, trend_data) ==
  LET e1 == [existing EXCEPT !.popularity_score = trend_data.popularity_score,
                             !.last_seen = utcnow(trend_data)]
      e2 == IF e1.popularity_score > 0
            THEN [e1 EXCEPT !.velocity =
                     velocity_of(trend_data.popularity_score, e1.popularity_score)]
            ELSE e1
  IN [e2 EXCEPT !.lifecycle_stage =
         determine_lifecycle_stage(e2.popularity_score, e2.velocity)]

\* the `else:` branch: MemeTrend(...)
new_trend(trend_data) ==
  [popularity_score |-> trend_data.popularity_score,
   velocity |-> 0,
   lifecycle_stage |-> "new",
   first_seen |-> utcnow(trend_data),
   last_seen |-> utcnow(trend_data)]

TrendColumns == {"popularity_score", "velocity", "lifecycle_stage", "first_seen", "last_seen"}

\* the UPDATE a session flushes for a loaded row: only the attributes whose
\* value differs from the loaded one are written; the instant assigned to
\* last_seen is never the loaded one, whatever day it falls on
flush_update(row, loaded, current) ==
  [c \in TrendColumns |->
     IF c = "last_seen" \/ current[c] # loaded[c] THEN current[c] ELSE row[c]]

otherThanIngest ==
  <<queue, tweets, analytics, today, twitter, content_generator_mode, ex, executions, bot_enabled, schedVars,
    cls>>

IdleIngest == [pc |-> "idle", remaining |-> 0, trend_data |-> NoTrend, existing |-> NoTrend]

\* scrape_trends -> run_full_scrape: the sources return n observations;
\* analyze_and_store_trends is entered only for a non-empty list
ScrapeStart(w, n) ==
  /\ ing[w].pc = "idle"
  /\ ing' = [ing EXCEPT ![w] = [IdleIngest EXCEPT !.pc = IF n = 0 THEN "done" ELSE "query",
                                                  !.remaining = n]]
  /\ ingest_log' = IF w \in DOMAIN ingest_log.trail
                   THEN [ingest_log EXCEPT !.trail[w] = <<>>]
                   ELSE ingest_log
  /\ UNCHANGED <<trends, name_index, otherThanIngest>>

\* session.query(MemeTrend).filter_by(name=...).first() for the next item
IngestQuery(w, obs) ==
  /\ ing[w].pc = "query"
  /\ ing' = [ing EXCEPT ![w].pc = "commit",
                        ![w].trend_data = [name |-> obs.name,
                                           popularity_score |-> obs.popularity_score,
                                           at |-> today],
                        ![w].existing = trends[obs.name]]
  /\ UNCHANGED <<trends, name_index, ingest_log, otherThanIngest>>

next_item(s) ==
  [s EXCEPT !.pc = IF s.remaining = 1 THEN "done" ELSE "query",
            !.remaining = s.remaining - 1,
            !.trend_data = NoTrend,
            !.existing = NoTrend]

\* mutation of unique_violation: the name column declared without unique=True
unique_violation_off(name) == FALSE

\* name = Column(String(200), unique=True, ...): the table refuses a second
\* row of a name
unique_violation(name) == name_index[name].rows > 0

\* the log after an item of execution w ended with `event`: the trail of a
\* followed job grows by the event; for a followed name a stored item notes
\* its raw score, and whether the item stored before it for this name carried
\* the same score with no other session writing in between
logged(w, event) ==
  LET d == ing[w].trend_data
      e == ing[w].existing
      trail == IF w \in DOMAIN ingest_log.trail
               THEN [ingest_log.trail EXCEPT ![w] = Append(@, event)]
               ELSE ingest_log.trail
      last == IF event = "stored" /\ d.name \in DOMAIN ingest_log.last
              THEN [ingest_log.last EXCEPT ![d.name] =
                      [popularity_score |-> d.popularity_score,
                       repeated |-> /\ ingest_log.last[d.name] # NoTrend
                                    /\ ingest_log.last[d.name].popularity_score
                                         = d.popularity_score
                                    /\ e = trends[d.name]]]
              ELSE ingest_log.last
  IN [last |-> last, trail |-> trail]

\* the branch body and session.commit(); an INSERT of a name that another
\* session has inserted meanwhile violates the unique constraint, which the
\* except clause rolls back
\* the branch body and session.commit(); datetime.utcnow() is read in the
\* branch body, at some moment between the query and the commit
IngestCommit(w) ==
  /\ ing[w].pc = "commit"
  /\ \E t \in ing[w].trend_data.at .. today :
      LET d == [ing[w].trend_data EXCEPT !.at = t]
          e == ing[w].existing
      IN IF e # NoTrend
         THEN /\ trends' = [trends EXCEPT ![d.name] =
                              flush_update(trends[d.name], e, update_existing(e, d))]
              /\ ingest_log' = logged(w, "stored")
              /\ UNCHANGED name_index
         ELSE IF ~ unique_violation(d.name)
         THEN /\ trends' = [trends EXCEPT ![d.name] = new_trend(d)]
              /\ ingest_log' = logged(w, "stored")
              /\ name_index' = [name_index EXCEPT ![d.name].rows = @ + 1]
         ELSE /\ UNCHANGED trends
              /\ ingest_log' = logged(w, "skipped")
              /\ name_index' = [name_index EXCEPT ![d.name].refused = TRUE]
  /\ ing' = [ing EXCEPT ![w] = next_item(ing[w])]
  /\ UNCHANGED otherThanIngest

\* mutation of IngestItemFault: the fault handled outside the loop, which
\* ends the batch
IngestItemFault_ends_batch(w) ==
  /\ ing[w].pc \in {"query", "commit"}
  /\ ing' = [ing EXCEPT ![w] = [next_item(ing[w]) EXCEPT !.pc = "done", !.remaining = 0]]
  /\ ingest_log' = logged(w, "skipped")
  /\ UNCHANGED <<trends, name_index, otherThanIngest>>

\* except Exception: session.rollback(); continue
IngestItemFault(w) ==
  /\ ing[w].pc \in {"query", "commit"}
  /\ ing' = [ing EXCEPT ![w] = next_item(ing[w])]
  /\ ingest_log' = logged(w, "skipped")
  /\ UNCHANGED <<trends, name_index, otherThanIngest>>

\* session.close() and return; the one-shot job does not run again
ScrapeFinish(w) ==
  /\ ing[w].pc = "done"
  /\ ing' = [ing EXCEPT ![w].pc = IF w = "initial_scrape" THEN "finished" ELSE "idle"]
  /\ UNCHANGED <<trends, name_index, ingest_log, otherThanIngest>>

(***************************************************************************)
(* bot/content_generator.py and services/llm_service.py                    *)
(***************************************************************************)
MaxExecutions == 2

FallbackContext == "Current internet culture and relatable situations"

NoMeme == [none |-> TRUE]

NoEval == [none |-> TRUE]

NoMeta == [none |-> TRUE]

\* dict.get(key, default)
Get(d, key, default) == IF key \in DOMAIN d THEN d[key] ELSE default

\* what the generation model may answer to generate_meme_content: a fault of
\* the call, a JSON object (with or without the expected keys), or text that
\* holds no JSON or invalid JSON
GenReplies ==
  { [kind |-> "fault"],
    [kind |-> "json", body |-> [text |-> "t1", format |-> "drake", topics |-> <<"gaming">>]],
    [kind |-> "json", body |-> [text |-> "t2"]],
    [kind |-> "json", body |-> [explanation |-> "no text"]],
    [kind |-> "no_json", text |-> "t3"],
    [kind |-> "bad_json", text |-> "t4"] }

\* what the model may answer to evaluate_generated_meme
EvalReplies ==
  { [kind |-> "fault"],
    [kind |-> "no_json"],
    [kind |-> "json", body |-> [overall_score |-> 4, should_post |-> FALSE, humor_score |-> 3,
                                authenticity_score |-> 2, engagement_score |-> 1]],
    [kind |-> "json", body |-> [overall_score |-> 0, should_post |-> TRUE, humor_score |-> 1,
                                authenticity_score |-> 1, engagement_score |-> 1]],
    [kind |-> "json", body |-> [overall_score |-> 5, should_post |-> TRUE, humor_score |-> 7,
                                authenticity_score |-> 6, engagement_score |-> 9]],
    [kind |-> "json", body |-> [overall_score |-> 8, should_post |-> FALSE, humor_score |-> 8,
                                authenticity_score |-> 7, engagement_score |-> 6]],
    [kind |-> "json", body |-> [should_post |-> FALSE, risks |-> "r"]],
    [kind |-> "json", body |-> [overall_score |-> 8, risks |-> "r"]] }

\* LLMService._parse_meme_response
parse_meme_response(reply) ==
  IF reply.kind = "json" THEN reply.body
  ELSE [text |-> reply.text, format |-> "None", irony_level |-> "unknown", topics |-> <<>>,
        explanation |-> IF reply.kind = "no_json"
                        THEN "Generated without structured format" ELSE "Parse error"]

\* LLMService.generate_meme_content: the parsed answer, or NoMeme when the
\* call raises (fault of the client, or result['text'] of an answer without
\* that key)
generate_meme_content(reply) ==
  IF reply.kind = "fault" THEN NoMeme
  ELSE IF "text" \in DOMAIN parse_meme_response(reply) THEN parse_meme_response(reply)
  ELSE NoMeme

DefaultEvaluation == [should_post |-> TRUE, overall_score |-> 5]

\* LLMService.evaluate_generated_meme: every exception is absorbed
evaluate_generated_meme(reply) ==
  IF reply.kind = "json" THEN reply.body ELSE DefaultEvaluation

\* mutation of needs_regeneration: the threshold taken inclusively
needs_regeneration_inclusive(evaluation) == Get(evaluation, "overall_score", 0) <= 5

\* the threshold of `if evaluation.get('overall_score', 0) < 5`
needs_regeneration(evaluation) == Get(evaluation, "overall_score", 0) < 5

\* ContentGenerator._get_trend_context: the names random.choice may return
qualifying(tr) ==
  {n \in DOMAIN tr : /\ tr[n] # NoTrend
                     /\ tr[n].popularity_score >= 30
                     /\ tr[n].lifecycle_stage \in {"rising", "peak"}}

\* mutation of top_trends: the query without its limit
top_trends_unlimited(tr, limit) == qualifying(tr)

\* order_by(popularity_score.desc()).limit(limit); which of several Trends
\* of equal score the limit keeps is left to the database
top_trends(tr, limit) ==
  {n \in qualifying(tr) :
     Cardinality({m \in qualifying(tr) :
                    tr[m].popularity_score > tr[n].popularity_score}) < limit}

trend_contexts(tr) ==
  IF top_trends(tr, 5) = {} THEN {FallbackContext} ELSE top_trends(tr, 5)

\* mutation of build_result: the scores of the first evaluation are kept
\* after a regeneration
build_result_first_eval(e) ==
  [text |-> e.meme_data.text,
   meme_format |-> Get(e.meme_data, "format", "None"),
   irony_level |-> "post-ironic",
   topics |-> Get(e.meme_data, "topics", <<>>),
   trend_context |-> e.context,
   quality_score |-> Get(e.first_eval, "overall_score", 5),
   should_post |-> Get(e.first_eval, "should_post", TRUE),
   evaluation |-> e.first_eval]

\* the dictionary generate_meme_tweet returns
build_result(e) ==
  [text |-> e.meme_data.text,
   meme_format |-> Get(e.meme_data, "format", "None"),
   irony_level |-> "post-ironic",
   topics |-> Get(e.meme_data, "topics", <<>>),
   trend_context |-> e.context,
   quality_score |-> Get(e.evaluation, "overall_score", 5),
   should_post |-> Get(e.evaluation, "should_post", TRUE),
   evaluation |-> e.evaluation]

otherThanPipeline == <<trends, name_index, ingest_log, analytics, today, ing, bot_enabled, schedVars, cls>>

otherThanTweets ==
  <<trends, name_index, ingest_log, queue, analytics, today, twitter, content_generator_mode,
    ing, ex, executions, bot_enabled, schedVars>>

IdleEx ==
  [pc |-> "idle", func |-> "None", attempt |-> 0, context |-> "None", meme_data |-> NoMeme,
   evaluation |-> NoEval, tweet_id |-> 0, outcome |-> "none",
   \* bookkeeping of the execution, read by the properties only
   gen_calls |-> 0, eval_calls |-> 0, first_eval |-> NoEval, eval_faulted |-> FALSE,
   publish_calls |-> 0, writes |-> 0, sessions |-> 0,
   generated |-> 0, evaluated |-> 0,   \* the attempts meme_data and evaluation are of
   store_at_start |-> [queue |-> <<>>, tweets |-> <<>>]]

\* _schedule_posting: the job function registered in each mode
job_of_mode ==
  IF content_generator_mode THEN "generate_content_to_queue" ELSE "post_meme"

\* the scheduler runs generate_content_to_queue or post_meme, by the mode
JobStart ==
  /\ ex.pc \in {"idle", "done"}
  /\ executions < MaxExecutions
  /\ executions' = executions + 1
  /\ ex' = [IdleEx EXCEPT !.pc = "context", !.attempt = 1,
                          !.func = job_of_mode,
                          !.store_at_start = [queue |-> queue, tweets |-> tweets]]
  /\ UNCHANGED <<queue, tweets, twitter, content_generator_mode, otherThanPipeline>>

\* MemeBot.post_now: post_meme called directly, whatever the mode
PostNow ==
  /\ ex.pc \in {"idle", "done"}
  /\ executions < MaxExecutions
  /\ executions' = executions + 1
  /\ ex' = [IdleEx EXCEPT !.pc = "context", !.attempt = 1,
                          !.func = "post_meme",
                          !.store_at_start = [queue |-> queue, tweets |-> tweets]]
  /\ UNCHANGED <<queue, tweets, twitter, content_generator_mode, otherThanPipeline>>

\* generate_meme_tweet returned None: the job logs and returns
no_meme(e) == [e EXCEPT !.pc = "done", !.outcome = "no_meme"]

\* _get_trend_context, _get_media_insights, the landscape summary
GetContext(c) ==
  /\ ex.pc = "context"
  /\ c \in trend_contexts(trends)
  /\ ex' = [ex EXCEPT !.pc = "generate", !.context = c]
  /\ UNCHANGED <<queue, tweets, twitter, content_generator_mode, executions, otherThanPipeline>>

\* a store read of the context selection raises
ContextFault ==
  /\ ex.pc = "context"
  /\ ex' = no_meme(ex)
  /\ UNCHANGED <<queue, tweets, twitter, content_generator_mode, executions, otherThanPipeline>>

\* mutation of after_generation: post_meme without its should_post check
after_generation_unchecked(e) ==
  IF e.func = "generate_content_to_queue" THEN [e EXCEPT !.pc = "save"]
  ELSE [e EXCEPT !.pc = "publish"]

\* where the job goes once generate_meme_tweet has returned its result
after_generation(e) ==
  IF e.func = "generate_content_to_queue" THEN [e EXCEPT !.pc = "save"]
  ELSE IF ~ build_result(e).should_post
       THEN [e EXCEPT !.pc = "done", !.outcome = "skipped"]
       ELSE [e EXCEPT !.pc = "publish"]

\* mutation of GenerateMemeContent: the regenerated answer is returned with
\* the evaluation of the first one
GenerateMemeContent_keeps_evaluation(reply) ==
  /\ ex.pc = "generate"
  /\ LET e1 == [ex EXCEPT !.gen_calls = @ + 1]
         m == generate_meme_content(reply)
     IN ex' = IF m = NoMeme THEN no_meme(e1)
              ELSE IF ex.attempt = 2
              THEN after_generation([e1 EXCEPT !.meme_data = m, !.generated = ex.attempt])
              ELSE [e1 EXCEPT !.pc = "evaluate", !.meme_data = m,
                              !.generated = ex.attempt]
  /\ UNCHANGED <<queue, tweets, twitter, content_generator_mode, executions, otherThanPipeline>>

\* self.llm.generate_meme_content(...): the answer replaces meme_data
GenerateMemeContent(reply) ==
  /\ ex.pc = "generate"
  /\ LET e1 == [ex EXCEPT !.gen_calls = @ + 1]
         m == generate_meme_content(reply)
     IN ex' = IF m = NoMeme THEN no_meme(e1)
              ELSE [e1 EXCEPT !.pc = "evaluate", !.meme_data = m,
                              !.generated = ex.attempt]
  /\ UNCHANGED <<queue, tweets, twitter, content_generator_mode, executions, otherThanPipeline>>

\* the self-evaluation and the regeneration gate behind it
EvaluateGeneratedMeme(reply) ==
  /\ ex.pc = "evaluate"
  /\ LET ev == evaluate_generated_meme(reply)
         e1 == [ex EXCEPT !.eval_calls = @ + 1,
                          !.evaluation = ev,
                          !.evaluated = ex.attempt,
                          !.first_eval = IF ex.attempt = 1 THEN ev ELSE @,
                          !.eval_faulted = @ \/ reply.kind = "fault"]
     IN ex' = IF ex.attempt = 1 /\ needs_regeneration(ev)
              THEN [e1 EXCEPT !.pc = "generate", !.attempt = 2]
              ELSE after_generation(e1)
  /\ UNCHANGED <<queue, tweets, twitter, content_generator_mode, executions, otherThanPipeline>>

(***************************************************************************)
(* bot/scheduler.py: the two primary-content jobs; bot/twitter_client.py   *)
(***************************************************************************)
\* ContentQueue(...) of generate_content_to_queue
content_item(meme) ==
  [content |-> meme.text,
   meme_format |-> meme.meme_format,
   irony_level |-> meme.irony_level,
   topics |-> meme.topics,
   trend_context |-> meme.trend_context,
   quality_score |-> meme.quality_score,
   humor_score |-> Get(meme.evaluation, "humor_score", 0),
   authenticity_score |-> Get(meme.evaluation, "authenticity_score", 0),
   engagement_score |-> Get(meme.evaluation, "engagement_score", 0),
   evaluation_data |-> meme.evaluation,
   status |-> "pending",
   reviewed_at |-> "None", reviewer_notes |-> "None",
   posted_at |-> "None", posted_tweet_id |-> "None"]

\* mutation of SaveToQueue: the newest queue item is overwritten when there
\* is one
SaveToQueue_overwrites ==
  /\ ex.pc = "save"
  /\ queue' = IF queue = <<>> THEN Append(queue, content_item(build_result(ex)))
              ELSE [queue EXCEPT ![Len(queue)] = content_item(build_result(ex))]
  /\ ex' = [ex EXCEPT !.pc = "done", !.outcome = "queued", !.writes = @ + 1]
  /\ UNCHANGED <<tweets, twitter, content_generator_mode, executions, otherThanPipeline>>

\* session.add(content_item); session.commit()
SaveToQueue ==
  /\ ex.pc = "save"
  /\ queue' = Append(queue, content_item(build_result(ex)))
  /\ ex' = [ex EXCEPT !.pc = "done", !.outcome = "queued", !.writes = @ + 1]
  /\ UNCHANGED <<tweets, twitter, content_generator_mode, executions, otherThanPipeline>>

\* TwitterClient.post_tweet: client.create_tweet accepted the text
CreateTweet ==
  /\ ex.pc = "publish"
  /\ twitter' = twitter + 1
  /\ ex' = [ex EXCEPT !.pc = "save_tweet", !.tweet_id = twitter + 1,
                      !.publish_calls = @ + 1]
  /\ UNCHANGED <<queue, tweets, content_generator_mode, executions, otherThanPipeline>>

\* TwitterClient.post_tweet: Tweet(...) added and committed in its own
\* session; the four generation columns (meta) are still NULL
SaveTweet ==
  /\ ex.pc = "save_tweet"
  /\ tweets' = Append(tweets, [tweet_id |-> ex.tweet_id, content |-> ex.meme_data.text,
                               posted_at |-> today, meta |-> NoMeta,
                               likes |-> 0, retweets |-> 0, replies |-> 0,
                               impressions |-> 0, last_updated |-> today])
  /\ ex' = [ex EXCEPT !.pc = "metadata", !.writes = @ + 1]
  /\ UNCHANGED <<queue, twitter, content_generator_mode, executions, otherThanPipeline>>

\* the generation columns post_meme sets on the row it looks up
tweet_meta(meme) ==
  [meme_format |-> meme.meme_format,
   irony_level |-> meme.irony_level,
   topics |-> meme.topics,
   trend_context |-> meme.trend_context]

\* post_meme: second session, filter_by(tweet_id=...).first(), commit
AttachMetadata ==
  /\ ex.pc = "metadata"
  /\ tweets' = [i \in DOMAIN tweets |->
                  IF i = CHOOSE j \in DOMAIN tweets : tweets[j].tweet_id = ex.tweet_id
                  THEN [tweets[i] EXCEPT !.meta = tweet_meta(build_result(ex)),
                                         !.last_updated = today]
                  ELSE tweets[i]]
  /\ ex' = [ex EXCEPT !.pc = "done", !.outcome = "posted", !.writes = @ + 1]
  /\ UNCHANGED <<queue, twitter, content_generator_mode, executions, otherThanPipeline>>

\* `except Exception` of the job: a store call (get_session, query, commit)
\* or the publishing call raised; the job logs and returns.  When the call
\* that raised came after get_session(), the session is still open: the
\* only session.close() is the one on the path without a fault
JobFault ==
  /\ ex.pc \in {"save", "publish", "save_tweet", "metadata"}
  /\ \E opened \in IF ex.pc = "publish" THEN {0} ELSE {0, 1} :
       ex' = [ex EXCEPT !.pc = "done", !.outcome = "error",
                        !.publish_calls = IF ex.pc = "publish" THEN @ + 1 ELSE @,
                        !.sessions = @ + opened]
  /\ UNCHANGED <<queue, tweets, twitter, content_generator_mode, executions, otherThanPipeline>>

PipelineStep(genReplies, evalReplies) ==
  \/ JobStart
  \/ \E c \in Names \cup {FallbackContext} : GetContext(c)
  \/ ContextFault
  \/ \E reply \in genReplies : GenerateMemeContent(reply)
  \/ \E reply \in evalReplies : EvaluateGeneratedMeme(reply)
  \/ SaveToQueue
  \/ CreateTweet
  \/ SaveTweet
  \/ AttachMetadata
  \/ JobFault

\* the number of metric-refresh executions in SpecMetrics
MaxRefreshes == 2

\* what get_tweet_metrics may return for a tweet: None after a fault of the
\* fetch, or the public metrics
MetricReplies ==
  { [kind |-> "None"],
    [kind |-> "metrics", likes |-> 3, retweets |-> 1, replies |-> 0, impressions |-> 40],
    [kind |-> "metrics", likes |-> 5, retweets |-> 1, replies |-> 2, impressions |-> 90] }

IdleRefresh == [pc |-> "idle", remaining |-> <<>>, failed |-> {}, refreshed |-> {}, runs |-> 0]

\* filter(Tweet.posted_at >= cutoff_date).all(), seven days back
recent_tweets == SelectSeq(tweets, LAMBDA row : row.posted_at >= today - 7)

\* MemeBot.update_tweet_metrics starts: the recent tweets are loaded
RefreshStart ==
  /\ cls.pc \in {"idle", "done"}
  /\ cls.runs < MaxRefreshes
  /\ cls' = [IdleRefresh EXCEPT !.pc = "loop", !.runs = cls.runs + 1,
                                !.remaining = [i \in DOMAIN recent_tweets |->
                                                 recent_tweets[i].tweet_id]]
  /\ UNCHANGED <<tweets, otherThanTweets>>

\* get_session() or the query of the job raises: the job logs and returns
RefreshQueryFault ==
  /\ cls.pc \in {"idle", "done"}
  /\ cls.runs < MaxRefreshes
  /\ cls' = [IdleRefresh EXCEPT !.pc = "done", !.runs = cls.runs + 1]
  /\ UNCHANGED <<tweets, otherThanTweets>>

\* the row TwitterClient.update_tweet_metrics commits
with_metrics(row, metrics) ==
  [row EXCEPT !.likes = metrics.likes, !.retweets = metrics.retweets,
              !.replies = metrics.replies, !.impressions = metrics.impressions,
              !.last_updated = today]

\* mutation of RefreshTweet: a failed fetch ends the loop
RefreshTweet_ends_at_failure(reply) ==
  /\ cls.pc = "loop"
  /\ cls.remaining # <<>>
  /\ LET id == Head(cls.remaining)
     IN IF reply.kind = "None"
        THEN /\ tweets' = tweets
             /\ cls' = [cls EXCEPT !.pc = "done", !.failed = @ \cup {id}]
        ELSE /\ tweets' = [i \in DOMAIN tweets |->
                             IF tweets[i].tweet_id = id
                             THEN with_metrics(tweets[i], reply) ELSE tweets[i]]
             /\ cls' = [cls EXCEPT !.remaining = Tail(@), !.refreshed = @ \cup {id}]
  /\ UNCHANGED otherThanTweets

\* one round of the loop: TwitterClient.update_tweet_metrics(tweet.tweet_id);
\* without metrics it returns at once, with metrics it sets the counters of
\* the row of that tweet_id and commits
RefreshTweet(reply) ==
  /\ cls.pc = "loop"
  /\ cls.remaining # <<>>
  /\ LET id == Head(cls.remaining)
     IN IF reply.kind = "None"
        THEN /\ tweets' = tweets
             /\ cls' = [cls EXCEPT !.remaining = Tail(@), !.failed = @ \cup {id}]
        ELSE /\ tweets' = [i \in DOMAIN tweets |->
                             IF tweets[i].tweet_id = id
                             THEN with_metrics(tweets[i], reply) ELSE tweets[i]]
             /\ cls' = [cls EXCEPT !.remaining = Tail(@), !.refreshed = @ \cup {id}]
  /\ UNCHANGED otherThanTweets

\* the loop is over: session.close()
RefreshFinish ==
  /\ cls.pc = "loop"
  /\ cls.remaining = <<>>
  /\ cls' = [cls EXCEPT !.pc = "done"]
  /\ UNCHANGED <<tweets, otherThanTweets>>

RefreshStep ==
  \/ RefreshStart
  \/ RefreshQueryFault
  \/ \E reply \in MetricReplies : RefreshTweet(reply)
  \/ RefreshFinish

(***************************************************************************)
(* api/server.py: the review transitions of the content queue              *)
(***************************************************************************)
ItemIds == 1..(MaxExecutions + 1)

ReviewNotes == {"", "ok"}

PostedTweetIds == {"", "tw1"}

otherThanQueue ==
  <<trends, name_index, ingest_log, tweets, analytics, today, twitter, content_generator_mode, ing, ex, executions,
    bot_enabled, schedVars, cls>>

\* filter_by(id=item_id).first(): the rows are numbered from 1
found(item_id) == item_id \in DOMAIN queue

\* mutation of approve_queue_item: the status set without the review fields
approve_queue_item_status_only(item_id, notes) ==
  /\ queue' = IF found(item_id)
              THEN [queue EXCEPT ![item_id].status = "approved"]
              ELSE queue
  /\ UNCHANGED otherThanQueue

\* POST /api/queue/<id>/approve; an unknown id is answered 404
approve_queue_item(item_id, notes) ==
  /\ queue' = IF found(item_id)
              THEN [queue EXCEPT ![item_id].status = "approved",
                                 ![item_id].reviewed_at = "now",
                                 ![item_id].reviewer_notes = notes]
              ELSE queue
  /\ UNCHANGED otherThanQueue

\* POST /api/queue/<id>/reject
reject_queue_item(item_id, notes) ==
  /\ queue' = IF found(item_id)
              THEN [queue EXCEPT ![item_id].status = "rejected",
                                 ![item_id].reviewed_at = "now",
                                 ![item_id].reviewer_notes = notes]
              ELSE queue
  /\ UNCHANGED otherThanQueue

\* POST /api/queue/<id>/mark-posted
mark_queue_item_posted(item_id, tweet_id) ==
  /\ queue' = IF found(item_id)
              THEN [queue EXCEPT ![item_id].status = "posted",
                                 ![item_id].posted_at = "now",
                                 ![item_id].posted_tweet_id = tweet_id]
              ELSE queue
  /\ UNCHANGED otherThanQueue

ReviewStep ==
  \/ \E i \in ItemIds, notes \in ReviewNotes : approve_queue_item(i, notes)
  \/ \E i \in ItemIds, notes \in ReviewNotes : reject_queue_item(i, notes)
  \/ \E i \in ItemIds, t \in PostedTweetIds : mark_queue_item_posted(i, t)

(***************************************************************************)
(* bot/scheduler.py: MemeBot.collect_analytics, and the calendar            *)
(***************************************************************************)
MaxDays == 2

MaxCollects == 2

otherThanAnalytics ==
  <<trends, name_index, ingest_log, queue, tweets, twitter, content_generator_mode, ing, ex,
    executions, bot_enabled, schedVars, cls>>

\* session.query(Tweet).filter(Tweet.posted_at >= today_start).all()
today_tweets == {i \in DOMAIN tweets : tweets[i].posted_at >= today}

\* BotAnalytics(date=today_start, tweets_posted=len(today_tweets), ...)
analytics_row ==
  [date |-> today, tweets_posted |-> Cardinality(today_tweets)]

\* one execution of collect_analytics that reaches session.commit()
CollectAnalytics ==
  /\ Len(analytics) < MaxCollects
  /\ analytics' = Append(analytics, analytics_row)
  /\ UNCHANGED <<today, otherThanAnalytics>>

\* utcnow() passes midnight
Midnight ==
  /\ today < MaxDays
  /\ today' = today + 1
  /\ UNCHANGED <<analytics, otherThanAnalytics>>

(***************************************************************************)
(* bot/scheduler.py: MemeBot.start, MemeBot.stop and the BackgroundScheduler*)
(* it owns.  The scheduler is built with its defaults and no add_job call  *)
(* passes max_instances, so every job runs with max_instances of 1.        *)
(***************************************************************************)
JobIds ==
  {"generate_content", "initial_generate", "post_meme", "initial_post",
   "scrape_trends", "initial_scrape", "update_metrics", "learning_session",
   "collect_analytics"}

\* the ids added with trigger='date', run_date=datetime.now()
DateJobs == {"initial_generate", "initial_post", "initial_scrape"}

max_instances == 1

\* mutation of posting_jobs: both primary-content jobs registered
posting_jobs_both ==
  {"generate_content", "initial_generate", "post_meme", "initial_post"}

\* _schedule_posting
posting_jobs ==
  IF content_generator_mode THEN {"generate_content", "initial_generate"}
  ELSE {"post_meme", "initial_post"}

\* mutation of scheduled_jobs: trend scraping registered without its twin
scheduled_jobs_no_scrape_twin ==
  posting_jobs \cup {"scrape_trends"} \cup {"update_metrics"}
    \cup {"learning_session"} \cup {"collect_analytics"}

\* the five _schedule_* calls of start()
scheduled_jobs ==
  posting_jobs \cup {"scrape_trends", "initial_scrape"} \cup {"update_metrics"}
    \cup {"learning_session"} \cup {"collect_analytics"}

otherThanSched ==
  <<trends, name_index, ingest_log, queue, tweets, analytics, today, twitter, content_generator_mode, ing, ex, executions,
    bot_enabled, cls>>

\* the function each job id is bound to by its add_job call
job_func ==
  [j \in JobIds |->
     CASE j \in {"generate_content", "initial_generate"} -> "generate_content_to_queue"
       [] j \in {"post_meme", "initial_post"} -> "post_meme"
       [] j \in {"scrape_trends", "initial_scrape"} -> "scrape_trends"
       [] j = "update_metrics" -> "update_tweet_metrics"
       [] j = "learning_session" -> "learning_session"
       [] j = "collect_analytics" -> "collect_analytics"]

\* nothing logged yet
InitHist ==
  [last_fault |-> "none",                   \* id of the last run that logged a fault
   at_stop |-> FALSE,                       \* shutdown() was called with runs in flight
   date_runs |-> [j \in DateJobs |-> 0],    \* runs started, per one-shot id
   start_calls |-> 0,                       \* calls of MemeBot.start
   start_error |-> "none",                  \* what a call of start() raised
   waited |-> FALSE]                        \* a submitted run found no free worker

\* MemeBot.start, called once by main.start_bot
Start ==
  /\ bot_pc = "constructed"
  /\ IF ~ bot_enabled
     THEN /\ bot_pc' = "disabled"
          /\ UNCHANGED <<jobs, sched_state, is_running>>
     ELSE /\ jobs' = scheduled_jobs
          /\ sched_state' = "running"
          /\ is_running' = TRUE
          /\ bot_pc' = "started"
  /\ hist' = [hist EXCEPT !.start_calls = 1]
  /\ UNCHANGED <<instances, missed, otherThanSched>>

MaxStarts == 2

\* MemeBot.start called again on the running bot: the recurring ids are added
\* with replace_existing=True, the one-shot ids without it, so an id still in
\* the job store raises ConflictingIdError out of start(); the calls that
\* pass end at scheduler.start(), which raises SchedulerAlreadyRunningError
StartAgain ==
  /\ bot_pc = "started"
  /\ hist.start_calls < MaxStarts
  /\ LET conflict1 == (posting_jobs \cap DateJobs) \cap jobs # {}
         jobs1 == jobs \cup posting_jobs
         conflict2 == "initial_scrape" \in jobs1
         jobs2 == jobs1 \cup {"scrape_trends", "initial_scrape"}
     IN /\ jobs' = IF conflict1 THEN jobs
                   ELSE IF conflict2 THEN jobs1 \cup {"scrape_trends"}
                   ELSE jobs2 \cup {"update_metrics", "learning_session", "collect_analytics"}
        /\ hist' = [hist EXCEPT !.start_calls = @ + 1,
                                !.start_error = IF conflict1 \/ conflict2
                                                THEN "ConflictingIdError"
                                                ELSE "SchedulerAlreadyRunningError"]
  /\ UNCHANGED <<instances, missed, sched_state, is_running, bot_pc, otherThanSched>>

\* mutation of can_submit: the scheduler configured with a higher limit
can_submit_three(j) == instances[j] < 3

\* the executor accepts a run of the job only below its instance limit
can_submit(j) == instances[j] < max_instances

\* mutation of max_workers: a pool of as few worker threads as one job may
\* have instances
max_workers_one == max_instances

\* the default executor of the scheduler: a pool of 10 worker threads
max_workers == 10

RECURSIVE total(_, _)
\* the sum of f over the set S
total(f, S) ==
  IF S = {} THEN 0
  ELSE LET x == CHOOSE y \in S : TRUE IN f[x] + total(f, S \ {x})

\* the runs submitted to the pool that have not returned
in_flight == total(instances, JobIds)

\* mutation of after_run: a one-shot job kept in the job store after its run
after_run_kept(j) == jobs

\* the job store once job j was found due: a date job has no next run time
\* and is removed, an interval or cron job stays
after_run(j) == IF j \in DateJobs THEN jobs \ {j} ELSE jobs

\* the scheduler thread finds job j due: the run is submitted to the worker
\* pool or skipped; a date job has no next run and leaves the job store
Trigger(j) ==
  /\ sched_state = "running"
  /\ j \in jobs
  /\ IF can_submit(j)
     THEN /\ instances' = [instances EXCEPT ![j] = @ + 1]
          /\ hist' = [hist EXCEPT !.date_runs = IF j \in DateJobs
                                                THEN [@ EXCEPT ![j] = @ + 1]
                                                ELSE @,
                                  !.waited = @ \/ in_flight >= max_workers]
          /\ UNCHANGED missed
     ELSE /\ missed' = missed \cup {j}
          /\ UNCHANGED <<instances, hist>>
  /\ jobs' = after_run(j)
  /\ UNCHANGED <<sched_state, is_running, bot_pc, otherThanSched>>

\* the job function returns on its worker (each job catches its exceptions)
JobReturns(j) ==
  /\ instances[j] > 0
  /\ instances' = [instances EXCEPT ![j] = @ - 1]
  /\ UNCHANGED <<jobs, missed, sched_state, is_running, bot_pc, hist, otherThanSched>>

\* mutation of JobFaults: a faulted run takes its job out of the job store
JobFaults_unregisters(j) ==
  /\ instances[j] > 0
  /\ instances' = [instances EXCEPT ![j] = @ - 1]
  /\ jobs' = jobs \ {j}
  /\ hist' = [hist EXCEPT !.last_fault = j]
  /\ UNCHANGED <<missed, sched_state, is_running, bot_pc, otherThanSched>>

\* the action of job j raises: the `except Exception` clause of the job
\* function logs the fault and the function returns to its worker
JobFaults(j) ==
  /\ instances[j] > 0
  /\ instances' = [instances EXCEPT ![j] = @ - 1]
  /\ hist' = [hist EXCEPT !.last_fault = j]
  /\ UNCHANGED <<jobs, missed, sched_state, is_running, bot_pc, otherThanSched>>

\* mutation of StopCalled: stop() that clears its flag without
\* scheduler.shutdown()
StopCalled_without_shutdown ==
  /\ bot_pc \in {"constructed", "disabled", "started"}
  /\ bot_pc' = "stopping"
  /\ hist' = [hist EXCEPT !.at_stop = \E j \in JobIds : instances[j] > 0]
  /\ UNCHANGED <<sched_state, jobs, instances, missed, is_running, otherThanSched>>

\* MemeBot.stop up to scheduler.shutdown(): a scheduler that is not running
\* raises; otherwise it stops, empties its job store and waits for its pool
StopCalled ==
  /\ bot_pc \in {"constructed", "disabled", "started"}
  /\ IF sched_state = "running"
     THEN /\ sched_state' = "stopped"
          /\ jobs' = {}
          /\ bot_pc' = "stopping"
          /\ hist' = [hist EXCEPT !.at_stop = \E j \in JobIds : instances[j] > 0]
     ELSE /\ bot_pc' = "stop_raised"
          /\ UNCHANGED <<sched_state, jobs, hist>>
  /\ UNCHANGED <<instances, missed, is_running, otherThanSched>>

\* shutdown() returns once no run is in flight; stop() clears is_running
StopReturns ==
  /\ bot_pc = "stopping"
  /\ \A j \in JobIds : instances[j] = 0
  /\ is_running' = FALSE
  /\ bot_pc' = "stopped"
  /\ UNCHANGED <<jobs, instances, missed, sched_state, hist, otherThanSched>>

\* the name= of each add_job call
job_name ==
  [j \in JobIds |->
     CASE j = "generate_content" -> "Generate Content to Queue"
       [] j = "initial_generate" -> "Initial Content Generation"
       [] j = "post_meme" -> "Post Meme Tweet"
       [] j = "initial_post" -> "Initial Post"
       [] j = "scrape_trends" -> "Scrape Meme Trends"
       [] j = "initial_scrape" -> "Initial Trend Scrape"
       [] j = "update_metrics" -> "Update Tweet Metrics"
       [] j = "learning_session" -> "Daily Learning Session"
       [] j = "collect_analytics" -> "Daily Analytics Collection"]

\* job.next_run_time.isoformat() if job.next_run_time else None: a job in
\* the store of a running scheduler has a next run time
next_run(j) == IF sched_state = "running" THEN "time" ELSE "None"

\* mutation of get_status: an entry kept for every job start() registers
get_status_of_registered ==
  [running |-> is_running,
   enabled |-> bot_enabled,
   next_jobs |-> { [id |-> j, name |-> job_name[j],
                    next_run |-> IF j \in jobs THEN next_run(j) ELSE "None"] :
                   j \in IF bot_pc = "constructed" THEN {} ELSE scheduled_jobs }]

\* MemeBot.get_status: one entry per job of scheduler.get_jobs()
get_status ==
  [running |-> is_running,
   enabled |-> bot_enabled,
   next_jobs |-> { [id |-> j, name |-> job_name[j], next_run |-> next_run(j)] : j \in jobs }]

SchedStep ==
  \/ Start
  \/ \E j \in JobIds : Trigger(j)
  \/ \E j \in JobIds : JobReturns(j)
  \/ \E j \in JobIds : JobFaults(j)
  \/ StopCalled
  \/ StopReturns

(***************************************************************************)
(* Specifications                                                          *)
(***************************************************************************)
EmptyTrends == [n \in Names |-> NoTrend]

\* mutation of upsert: an existing Trend is left as it is (insert only)
upsert_insert_only(tr, d) ==
  IF tr[d.name] # NoTrend
  THEN tr
  ELSE [tr EXCEPT ![d.name] = new_trend(d)]

\* the effect of one item of analyze_and_store_trends run on its own
upsert(tr, d) ==
  IF tr[d.name] # NoTrend
  THEN [tr EXCEPT ![d.name] = update_existing(tr[d.name], d)]
  ELSE [tr EXCEPT ![d.name] = new_trend(d)]

RECURSIVE ingest(_, _)
ingest(tr, batch) ==
  IF batch = <<>> THEN tr ELSE ingest(upsert(tr, Head(batch)), Tail(batch))

\* stores that scrapes leave: nothing yet, or the batches below
ScrapedTrends ==
  { EmptyTrends,
    ingest(EmptyTrends, << [name |-> "X", popularity_score |-> 70],
                           [name |-> "X", popularity_score |-> 70] >>),
    ingest(EmptyTrends, << [name |-> "X", popularity_score |-> 40],
                           [name |-> "Y", popularity_score |-> 70],
                           [name |-> "X", popularity_score |-> 70],
                           [name |-> "Y", popularity_score |-> 70] >>) }

\* the unique index of a table that holds the rows tr
index_of(tr) ==
  [n \in Names |-> [rows |-> IF tr[n] = NoTrend THEN 0 ELSE 1, refused |-> FALSE]]

NoCall == [none |-> TRUE]

\* no name and no job is followed
NoneFollowed == [last |-> [n \in {} |-> NoTrend], trail |-> [w \in {} |-> <<>>]]

InitIdle ==
  /\ name_index = index_of(trends)
  /\ analytics = <<>>
  /\ today = FirstDay
  /\ hist = InitHist
  /\ queue = <<>>
  /\ tweets = <<>>
  /\ twitter = 0
  /\ ing = [w \in ScrapeJobs |-> IdleIngest]
  /\ ex = IdleEx
  /\ executions = 0
  /\ jobs = {}
  /\ instances = [j \in JobIds |-> 0]
  /\ missed = {}
  /\ sched_state = "stopped"
  /\ is_running = FALSE
  /\ bot_pc = "constructed"

\* the trend tracker: the two scrape jobs against the store
InitIngest ==
  /\ trends = EmptyTrends
  /\ InitIdle
  /\ ingest_log = NoneFollowed
  /\ cls = NoCall
  /\ content_generator_mode = TRUE
  /\ bot_enabled = TRUE

NextIngest ==
  \/ \E w \in ScrapeJobs, n \in 0..MaxBatch : ScrapeStart(w, n)
  \/ \E w \in ScrapeJobs, obs \in Observations : IngestQuery(w, obs)
  \/ \E w \in ScrapeJobs : IngestCommit(w)
  \/ \E w \in ScrapeJobs : IngestItemFault(w)
  \/ \E w \in ScrapeJobs : ScrapeFinish(w)

SpecIngest == InitIngest /\ [][NextIngest]_vars

\* the primary-content job, in either mode, over a store that scrapes filled
InitPipeline ==
  /\ trends \in ScrapedTrends
  /\ InitIdle
  /\ ingest_log = NoneFollowed
  /\ cls = NoCall
  /\ content_generator_mode \in BOOLEAN
  /\ bot_enabled = TRUE

NextPipeline == PipelineStep(GenReplies, EvalReplies)

SpecPipeline == InitPipeline /\ [][NextPipeline]_vars

\* the review interface next to the primary-content job
ReviewGenReplies ==
  { [kind |-> "fault"],
    [kind |-> "json", body |-> [text |-> "t1", format |-> "drake", topics |-> <<"gaming">>]] }

ReviewEvalReplies ==
  { [kind |-> "json", body |-> [overall_score |-> 5, should_post |-> TRUE, humor_score |-> 7,
                                authenticity_score |-> 6, engagement_score |-> 9]] }

InitReview ==
  /\ trends = EmptyTrends
  /\ InitIdle
  /\ ingest_log = NoneFollowed
  /\ cls = NoCall
  /\ content_generator_mode \in BOOLEAN
  /\ bot_enabled = TRUE

NextReview ==
  \/ PipelineStep(ReviewGenReplies, ReviewEvalReplies)
  \/ ReviewStep

SpecReview == InitReview /\ [][NextReview]_vars

\* the bot and its scheduler, with the jobs as opaque runs
InitSched ==
  /\ trends = EmptyTrends
  /\ InitIdle
  /\ ingest_log = NoneFollowed
  /\ cls = NoCall
  /\ content_generator_mode \in BOOLEAN
  /\ bot_enabled \in BOOLEAN

NextSched == SchedStep

SpecSched == InitSched /\ [][NextSched]_vars

\* the bot with start() called a second time while it runs
InitRestart ==
  /\ trends = EmptyTrends
  /\ InitIdle
  /\ ingest_log = NoneFollowed
  /\ cls = NoCall
  /\ content_generator_mode = TRUE
  /\ bot_enabled = TRUE

NextRestart ==
  \/ SchedStep
  \/ StartAgain

SpecRestart == InitRestart /\ [][NextRestart]_vars

\* scores outside the 0-100 scale that analyze_and_store_trends may be handed:
\* the Reddit score of a post with a negative vote balance, and a score that
\* a source passes as it is
OutOfRangeScores == {calculate_popularity_score(0 - 1000, 0), 150}

OutOfRangeObservations == [name : Names, popularity_score : OutOfRangeScores]

\* the two scrape jobs ingesting observations whose scores are off the scale
NextIngestRaw ==
  \/ \E w \in ScrapeJobs, n \in 0..MaxBatch : ScrapeStart(w, n)
  \/ \E w \in ScrapeJobs, obs \in OutOfRangeObservations : IngestQuery(w, obs)
  \/ \E w \in ScrapeJobs : IngestCommit(w)
  \/ \E w \in ScrapeJobs : IngestItemFault(w)
  \/ \E w \in ScrapeJobs : ScrapeFinish(w)

SpecIngestRaw == InitIngest /\ [][NextIngestRaw]_vars

\* a store that holds a Trend X with a velocity an earlier writer left
SeededTrends ==
  { [EmptyTrends EXCEPT !["X"] = r] :
      r \in { [popularity_score |-> 15, velocity |-> 16667, lifecycle_stage |-> "rising",
               first_seen |-> FirstDay, last_seen |-> FirstDay],
              [popularity_score |-> 70, velocity |-> 0 - 2500,
               lifecycle_stage |-> "declining",
               first_seen |-> FirstDay, last_seen |-> FirstDay] } }

MaxReingest == 3

ReingestObservations ==
  { [name |-> "X", popularity_score |-> 0], [name |-> "X", popularity_score |-> 40],
    [name |-> "Y", popularity_score |-> 40] }

\* the recurring scrape job and its twin over a seeded store, with both
\* names and the recurring job followed in the log
InitReingest ==
  /\ trends \in SeededTrends
  /\ InitIdle
  /\ ingest_log = [last |-> [n \in Names |-> NoTrend],
                   trail |-> [w \in {"scrape_trends"} |-> <<>>]]
  /\ cls = NoCall
  /\ content_generator_mode = TRUE
  /\ bot_enabled = TRUE

NextReingest ==
  \/ \E w \in ScrapeJobs, n \in 0..MaxReingest : ScrapeStart(w, n)
  \/ \E w \in ScrapeJobs, obs \in ReingestObservations : IngestQuery(w, obs)
  \/ \E w \in ScrapeJobs : IngestCommit(w)
  \/ \E w \in ScrapeJobs : IngestItemFault(w)
  \/ \E w \in ScrapeJobs : ScrapeFinish(w)

SpecReingest == InitReingest /\ [][NextReingest]_vars

\* the analytics job next to the primary-content job in auto-post mode
InitAnalytics ==
  /\ trends = EmptyTrends
  /\ InitIdle
  /\ ingest_log = NoneFollowed
  /\ cls = NoCall
  /\ content_generator_mode \in BOOLEAN
  /\ bot_enabled = TRUE

NextAnalytics ==
  \/ PipelineStep(ReviewGenReplies, ReviewEvalReplies)
  \/ CollectAnalytics
  \/ Midnight

SpecAnalytics == InitAnalytics /\ [][NextAnalytics]_vars

\* arguments of _determine_lifecycle_stage on both sides of every threshold
ClassifyScores == {0 - 1, 0, 19, 20, 21, 59, 60, 61, 100, 101}

ClassifyVelocities ==
  {0 - 2001, 0 - 2000, 0 - 1999, 0 - 1001, 0 - 1000, 0 - 999, 0,
   1999, 2000, 2001, 4999, 5000, 5001}

\* one call of _determine_lifecycle_stage
Classify ==
  /\ cls.stage = "unset"
  /\ cls' = [cls EXCEPT !.stage = determine_lifecycle_stage(cls.popularity_score, cls.velocity)]
  /\ UNCHANGED <<trends, name_index, ingest_log, queue, tweets, analytics, today, twitter,
                 content_generator_mode, ing, ex, executions, bot_enabled, schedVars>>

InitClassify ==
  /\ trends = EmptyTrends
  /\ InitIdle
  /\ ingest_log = NoneFollowed
  /\ content_generator_mode = TRUE
  /\ bot_enabled = TRUE
  /\ cls \in [popularity_score : ClassifyScores, velocity : ClassifyVelocities,
               stage : {"unset"}]

NextClassify == Classify

SpecClassify == InitClassify /\ [][NextClassify]_vars

\* the longest batch of an execution in SpecCommute
MaxCommuteBatch == 1

CommuteBatches ==
  UNION {[1..k -> Observations] : k \in 0..MaxCommuteBatch}

\* two executions of different job ids, each run alone from start to end:
\* scrape_trends and either its one-shot twin or the primary-content job
CommuteExecutions ==
  [first : [id : {"scrape_trends"}, batch : CommuteBatches],
   second : [id : {"initial_scrape"}, batch : CommuteBatches]
              \cup [id : {"generate_content"}, batch : {<<>>}]]

\* what one execution run alone leaves of each of the stores S: a scrape
\* upserts its batch; a generation appends a candidate whose trend_context
\* is a choice among the trends as they are when it runs
execute(S, e) ==
  IF job_func[e.id] = "scrape_trends"
  THEN {[st EXCEPT !.trends = ingest(@, e.batch)] : st \in S}
  ELSE UNION {{[st EXCEPT !.queue = Append(@, c)] : c \in trend_contexts(st.trends)}
                : st \in S}

\* the two executions run in both orders from the same Store
Commute ==
  /\ ~ cls.ran
  /\ cls' = [cls EXCEPT !.ran = TRUE,
                        !.ab = execute(execute({cls.store}, cls.first), cls.second),
                        !.ba = execute(execute({cls.store}, cls.second), cls.first)]
  /\ UNCHANGED <<trends, name_index, ingest_log, queue, tweets, analytics, today, twitter,
                 content_generator_mode, ing, ex, executions, bot_enabled, schedVars>>

InitCommute ==
  /\ trends \in ScrapedTrends
  /\ InitIdle
  /\ ingest_log = NoneFollowed
  /\ content_generator_mode = TRUE
  /\ bot_enabled = TRUE
  /\ \E e \in CommuteExecutions :
       cls = [store |-> [trends |-> trends, queue |-> <<>>],
              first |-> e.first, second |-> e.second,
              ran |-> FALSE, ab |-> {}, ba |-> {}]

NextCommute == Commute

SpecCommute == InitCommute /\ [][NextCommute]_vars

\* the trend names of the context selection: more than its limit of 5
ContextNames == Names \cup {"a", "b", "c", "d"}

\* stores for the context selection: every name holds a Trend that passes
\* the filter with a low or a high score, or fails it by score or by stage
ContextTrends ==
  [ContextNames ->
     [popularity_score : {29, 30, 70}, velocity : {2500}, lifecycle_stage : {"rising"},
      first_seen : {FirstDay}, last_seen : {FirstDay}]
       \cup { [popularity_score |-> 40, velocity |-> 0, lifecycle_stage |-> "stable",
                first_seen |-> FirstDay, last_seen |-> FirstDay] }]

InitContext ==
  /\ trends \in ContextTrends
  /\ InitIdle
  /\ ingest_log = NoneFollowed
  /\ cls = NoCall
  /\ content_generator_mode = TRUE
  /\ bot_enabled = TRUE

\* generate_meme_tweet up to the answer of the generation call
NextContext ==
  \/ JobStart
  \/ \E c \in ContextNames \cup {FallbackContext} : GetContext(c)
  \/ ContextFault
  \/ \E reply \in ReviewGenReplies : GenerateMemeContent(reply)

SpecContext == InitContext /\ [][NextContext]_vars

\* the number of analyzed media records in SpecMedia
MaxMedia == 4

MediaIds == 1..MaxMedia

\* stores of analyzed media: scores on both sides of the threshold of the
\* query, analysis times that repeat
MediaStores ==
  [MediaIds -> [meme_potential_score : {59, 60, 90}, analyzed_at : {1, 2, 3}]]

\* filter(MemeMedia.meme_potential_score >= 60)
high_scoring(media) == {i \in DOMAIN media : media[i].meme_potential_score >= 60}

Min(a, b) == IF a < b THEN a ELSE b

\* mutation of media_insights: the query ordered by score
media_insights_by_score(media) ==
  {u \in SUBSET high_scoring(media) :
     /\ Cardinality(u) = Min(3, Cardinality(high_scoring(media)))
     /\ \A i \in u, k \in high_scoring(media) \ u :
          media[k].meme_potential_score <= media[i].meme_potential_score}

\* the records _get_media_insights may read:
\* order_by(analyzed_at.desc()).limit(3).all(); which of several records of
\* one analysis time the limit keeps is left to the database
media_insights(media) ==
  {u \in SUBSET high_scoring(media) :
     /\ Cardinality(u) = Min(3, Cardinality(high_scoring(media)))
     /\ \A i \in u, k \in high_scoring(media) \ u :
          media[k].analyzed_at <= media[i].analyzed_at}

\* one call of _get_media_insights
GetMediaInsights ==
  /\ ~ cls.ran
  /\ \E u \in media_insights(cls.media) : cls' = [cls EXCEPT !.ran = TRUE, !.used = u]
  /\ UNCHANGED <<trends, name_index, ingest_log, queue, tweets, analytics, today, twitter,
                 content_generator_mode, ing, ex, executions, bot_enabled, schedVars>>

InitMedia ==
  /\ trends = EmptyTrends
  /\ InitIdle
  /\ ingest_log = NoneFollowed
  /\ content_generator_mode = TRUE
  /\ bot_enabled = TRUE
  /\ \E media \in MediaStores : cls = [media |-> media, ran |-> FALSE, used |-> {}]

NextMedia == GetMediaInsights

SpecMedia == InitMedia /\ [][NextMedia]_vars

\* the metric-refresh job next to the primary-content job
InitMetrics ==
  /\ trends = EmptyTrends
  /\ InitIdle
  /\ ingest_log = NoneFollowed
  /\ cls = IdleRefresh
  /\ content_generator_mode \in BOOLEAN
  /\ bot_enabled = TRUE

NextMetrics ==
  \/ PipelineStep(ReviewGenReplies, ReviewEvalReplies)
  \/ RefreshStep

SpecMetrics == InitMetrics /\ [][NextMetrics]_vars

\* the trend tracker over several days
DayObservations ==
  { [name |-> "X", popularity_score |-> 40], [name |-> "X", popularity_score |-> 70],
    [name |-> "Y", popularity_score |-> 40] }

NextIngestDays ==
  \/ \E w \in ScrapeJobs, n \in 0..MaxBatch : ScrapeStart(w, n)
  \/ \E w \in ScrapeJobs, obs \in DayObservations : IngestQuery(w, obs)
  \/ \E w \in ScrapeJobs : IngestCommit(w)
  \/ \E w \in ScrapeJobs : IngestItemFault(w)
  \/ \E w \in ScrapeJobs : ScrapeFinish(w)
  \/ Midnight

SpecIngestDays == InitIngest /\ [][NextIngestDays]_vars

\* the manual trigger next to the scheduled primary-content job
InitManual ==
  /\ trends = EmptyTrends
  /\ InitIdle
  /\ ingest_log = NoneFollowed
  /\ cls = NoCall
  /\ content_generator_mode \in BOOLEAN
  /\ bot_enabled = TRUE

NextManual ==
  \/ PipelineStep(ReviewGenReplies, ReviewEvalReplies)
  \/ PostNow

SpecManual == InitManual /\ [][NextManual]_vars

(***************************************************************************)
(* Properties                                                              *)
(***************************************************************************)
LegalMoves ==
  { <<"pending", "approved">>, <<"pending", "rejected">>,
    <<"pending", "posted">>, <<"approved", "posted">> }

\* C1: every change a step makes to a queue item is one of the legal status
\* moves pending->approved, pending->rejected, {pending,approved}->posted; a
\* rejected or posted item is never changed again, approve and reject change
\* pending items only, and no item returns to pending.
C1_OnlyLegalStatusMoves ==
  [][\A i \in DOMAIN queue :
        \/ queue'[i] = queue[i]
        \/ <<queue[i].status, queue'[i].status>> \in LegalMoves]_vars

\* an update of an existing Trend that commits over the row it read
UpdateCommit(w) ==
  /\ IngestCommit(w)
  /\ ing[w].existing # NoTrend
  /\ ing[w].existing = trends[ing[w].trend_data.name]

\* C2: an ingest of a name that has a Trend stores rawScore as the score and,
\* when the previous score old is positive, the velocity
\* round((rawScore - old) / old * 100, 2) taken against the score held before
\* the update; when old is 0 the velocity stays as it was.
C2_VelocityAgainstPreviousScore ==
  [][\A w \in ScrapeJobs :
        UpdateCommit(w) =>
          LET d == ing[w].trend_data
              old == trends[d.name]
          IN /\ trends'[d.name].popularity_score = d.popularity_score
             /\ trends'[d.name].velocity =
                  IF old.popularity_score > 0
                  THEN velocity_of(d.popularity_score, old.popularity_score)
                  ELSE old.velocity]_vars

\* C3: when a name is ingested again with a score in the 20-60 band that
\* exceeds its previous positive score by more than 20 percent, the Trend's
\* stage afterwards is rising.
C3_RisingAfterGrowthInMidBand ==
  [][\A w \in ScrapeJobs :
        (/\ UpdateCommit(w)
         /\ trends[ing[w].trend_data.name].popularity_score > 0
         /\ ing[w].trend_data.popularity_score >= 20
         /\ ing[w].trend_data.popularity_score < 60
         /\ (ing[w].trend_data.popularity_score
               - trends[ing[w].trend_data.name].popularity_score) * 100
              > 20 * trends[ing[w].trend_data.name].popularity_score)
        => trends'[ing[w].trend_data.name].lifecycle_stage = "rising"]_vars

\* C4: in every store state the stage of every Trend is the stage the table
\* gives for its stored score and velocity, a newly created Trend included.
C4_StageIsClassifyOfStoredPair ==
  \A n \in Names :
    trends[n] # NoTrend =>
      trends[n].lifecycle_stage =
        determine_lifecycle_stage(trends[n].popularity_score, trends[n].velocity)

\* generate_meme_tweet has returned its result dictionary to the job
Returned(e) ==
  \/ e.pc \in {"save", "publish", "save_tweet", "metadata"}
  \/ e.pc = "done" /\ e.outcome \in {"queued", "posted", "skipped", "error"}

\* C5: one invocation calls the evaluator and the generator at most twice
\* each; a first overall_score >= 5 is never followed by another call; an
\* invocation that returns a candidate has called the evaluator once when the
\* first overall_score was >= 5 and twice when it was < 5, as often as the
\* generator; and the second evaluation always ends the invocation with a
\* candidate, whatever its score.
C5_OneRetryAtMost ==
  /\ ex.eval_calls <= 2
  /\ ex.gen_calls <= 2
  /\ ("overall_score" \in DOMAIN ex.first_eval /\ ex.first_eval.overall_score >= 5)
       => ex.eval_calls = 1 /\ ex.gen_calls = 1
  /\ Returned(ex) =>
       /\ ex.gen_calls = ex.eval_calls
       /\ "overall_score" \in DOMAIN ex.first_eval =>
            ex.eval_calls = IF ex.first_eval.overall_score < 5 THEN 2 ELSE 1
  /\ ex.eval_calls = 2 => Returned(ex)

\* C5 witness: both evaluations scored below 5 and the second attempt was
\* accepted and queued
C5_Witness ==
  /\ ex.pc = "done"
  /\ ex.outcome = "queued"
  /\ ex.eval_calls = 2
  /\ "overall_score" \in DOMAIN ex.first_eval /\ ex.first_eval.overall_score < 5
  /\ "overall_score" \in DOMAIN ex.evaluation /\ ex.evaluation.overall_score < 5

\* C6: in generator mode an execution whose generation returned a candidate
\* and whose store calls did not fault has appended exactly one row to the
\* queue; the row is pending, carries the generated text, the final
\* evaluation as payload and that evaluation's overall, humor, authenticity
\* and engagement scores; any other execution leaves the queue as it was.
C6_OnePendingCandidateWithFinalScores ==
  (content_generator_mode /\ ex.pc = "done") =>
    IF Returned(ex) /\ ex.outcome # "error"
    THEN /\ Len(queue) = Len(ex.store_at_start.queue) + 1
         /\ SubSeq(queue, 1, Len(queue) - 1) = ex.store_at_start.queue
         /\ LET row == queue[Len(queue)]
                final == ex.evaluation
            IN /\ row.status = "pending"
               /\ row.content = ex.meme_data.text
               /\ row.evaluation_data = final
               /\ "overall_score" \in DOMAIN final => row.quality_score = final.overall_score
               /\ "humor_score" \in DOMAIN final => row.humor_score = final.humor_score
               /\ "authenticity_score" \in DOMAIN final =>
                    row.authenticity_score = final.authenticity_score
               /\ "engagement_score" \in DOMAIN final =>
                    row.engagement_score = final.engagement_score
    ELSE queue = ex.store_at_start.queue

\* C6 witness: a regenerated candidate was queued with the second score
C6_Witness ==
  /\ content_generator_mode
  /\ ex.pc = "done"
  /\ ex.outcome = "queued"
  /\ ex.eval_calls = 2
  /\ ex.first_eval # ex.evaluation
  /\ Len(queue) > 0
  /\ queue[Len(queue)].quality_score = 8
  /\ queue[Len(queue)].humor_score = 8

\* C7: in auto-post mode, an execution whose final evaluation says
\* should_post = false has ended without calling the publishing service and
\* without a store write: queue and tweets are as they were at its start.
C7_NoSideEffectWhenShouldPostFalse ==
  (/\ ~ content_generator_mode
   /\ Returned(ex)
   /\ "should_post" \in DOMAIN ex.evaluation
   /\ ~ ex.evaluation.should_post)
  => /\ ex.pc = "done"
     /\ ex.publish_calls = 0
     /\ ex.writes = 0
     /\ queue = ex.store_at_start.queue
     /\ tweets = ex.store_at_start.tweets

\* C7 witness: both attempts were evaluated should_post = false
C7_Witness ==
  /\ ~ content_generator_mode
  /\ ex.pc = "done"
  /\ ex.eval_calls = 2
  /\ "should_post" \in DOMAIN ex.first_eval /\ ~ ex.first_eval.should_post
  /\ "should_post" \in DOMAIN ex.evaluation /\ ~ ex.evaluation.should_post
  /\ executions = 2
  /\ Len(tweets) = 1

\* C8: once a primary-content execution has ended, no persisted tweet lacks
\* its generation metadata, whichever call faulted.
C8_NoTweetWithoutMetadata ==
  ex.pc = "done" => \A i \in DOMAIN tweets : tweets[i].meta # NoMeta

\* C9: an execution in which an evaluate call faulted queues nothing and
\* publishes nothing.
C9_EvaluatorFaultAborts ==
  ex.eval_faulted => ex.writes = 0 /\ ex.publish_calls = 0

\* C10: no job id ever has two executions in flight; a run that comes due
\* while the previous run of the same id has not returned is not started.
C10_OneExecutionPerJobId ==
  \A j \in JobIds : instances[j] <= 1

\* C10 witness: a run of an id came due while its previous run was still in
\* flight, and was skipped
C10_Witness ==
  \E j \in JobIds : j \in missed /\ instances[j] = 1

\* the ids added with an interval or cron trigger
RecurringJobs ==
  {"generate_content", "post_meme", "scrape_trends", "update_metrics", "learning_session",
   "collect_analytics"}

\* C11: a fault raised inside a job's action changes neither the job store
\* nor the state of the scheduler or of the bot; while the scheduler runs, a
\* recurring job whose last run faulted is still registered and can fire, and
\* its next fire starts an execution.
C11_FaultLeavesJobScheduled ==
  /\ [](\A j \in RecurringJobs :
          (hist.last_fault = j /\ sched_state = "running") => ENABLED Trigger(j))
  /\ [][\A j \in JobIds :
          JobFaults(j) =>
            /\ jobs' = jobs
            /\ sched_state' = sched_state
            /\ is_running' = is_running
            /\ bot_pc' = bot_pc]_vars
  /\ [][\A j \in JobIds :
          (Trigger(j) /\ hist.last_fault = j /\ instances[j] = 0)
            => instances'[j] = 1]_vars

\* C11 witness: a recurring job runs again after its previous run faulted
C11_Witness ==
  \E j \in RecurringJobs :
    /\ hist.last_fault = j
    /\ instances[j] = 1
    /\ j \in jobs
    /\ sched_state = "running"

\* C12: once stop() has returned no execution begins; the call of stop()
\* itself ends no execution, and while stop() waits an execution in flight
\* ends only by its job function returning.
C12_NoRunAfterStop ==
  /\ [][bot_pc = "stopped" => instances' = instances]_vars
  /\ [][StopCalled => instances' = instances]_vars
  /\ [][bot_pc = "stopping" =>
          \A j \in JobIds :
            instances'[j] # instances[j] => (JobReturns(j) \/ JobFaults(j))]_vars

\* C12 witness: stop() was called with executions in flight and has returned
\* after they ended
C12_Witness ==
  /\ bot_pc = "stopped"
  /\ hist.at_stop
  /\ \A j \in JobIds : instances[j] = 0

\* the registrations start() leaves give recurring job r a one-shot twin
has_twin(js, r) == \E t \in js \cap DateJobs : job_func[t] = job_func[r]

\* C13 as claimed: right after start() every registered recurring job has an
\* immediate one-shot twin.
C13_EveryRecurringJobHasTwin ==
  [][(bot_pc = "constructed" /\ bot_pc' = "started") =>
        \A r \in jobs' \cap RecurringJobs : has_twin(jobs', r)]_vars

\* C13 amended: right after start() the primary-content job and the
\* trend-scrape job have an immediate one-shot twin each, and metric-refresh,
\* daily-learning and daily-analytics have none.
C13_TwinsOfPostingAndScrapeOnly ==
  [][(bot_pc = "constructed" /\ bot_pc' = "started") =>
        /\ jobs' \cap RecurringJobs =
             (jobs' \cap {"generate_content", "post_meme"})
               \cup {"scrape_trends", "update_metrics", "learning_session",
                     "collect_analytics"}
        /\ jobs' \cap {"generate_content", "post_meme"} # {}
        /\ \A r \in jobs' \cap RecurringJobs :
             has_twin(jobs', r) <=> r \in {"generate_content", "post_meme", "scrape_trends"}]_vars

\* C13 witness: both twins have run after start() while the three jobs
\* without a twin have not run yet
C13_Witness ==
  /\ sched_state = "running"
  /\ hist.date_runs["initial_scrape"] = 1
  /\ hist.date_runs["initial_generate"] + hist.date_runs["initial_post"] = 1
  /\ jobs \cap DateJobs = {}
  /\ \A j \in {"update_metrics", "learning_session", "collect_analytics"} :
       j \in jobs /\ instances[j] = 0

C15_ReRegistrationRaisesNothing ==
  hist.start_error = "none"

\* C16: the two primary-content jobs are never both registered; while the
\* scheduler runs exactly one of them is, post_meme in auto-post mode and
\* generate_content in generator mode; no job of the other mode is ever
\* registered or run; and the mode never changes.
C16_OnePrimaryJob ==
  /\ [](/\ ~ ({"generate_content", "post_meme"} \subseteq jobs)
        /\ sched_state = "running" =>
             /\ Cardinality(jobs \cap {"generate_content", "post_meme"}) = 1
             /\ content_generator_mode <=> "generate_content" \in jobs
        /\ LET other == IF content_generator_mode
                        THEN {"post_meme", "initial_post"}
                        ELSE {"generate_content", "initial_generate"}
           IN \A j \in other : j \notin jobs /\ instances[j] = 0)
  /\ [][content_generator_mode' = content_generator_mode]_vars

\* C16 witness: in auto-post mode the twin has fired and post_meme, still
\* registered, is running
C16_Witness ==
  /\ ~ content_generator_mode
  /\ sched_state = "running"
  /\ "post_meme" \in jobs
  /\ "initial_post" \notin jobs
  /\ instances["post_meme"] = 1

\* C17: the table never holds two Trends of one name, whatever the two scrape
\* jobs ingest and however their steps interleave, and a Trend that is in
\* the table stays in it.
C17_OneTrendPerName ==
  /\ [](\A n \in Names :
          /\ name_index[n].rows <= 1
          /\ name_index[n].rows = 1 <=> trends[n] # NoTrend)
  /\ [][\A n \in Names :
          /\ trends[n] # NoTrend => trends'[n] # NoTrend
          /\ name_index'[n].rows >= name_index[n].rows]_vars

\* C17 witness: both executions tried to create the same name, one INSERT was
\* refused, and a batch went on to a second Trend
C17_Witness ==
  /\ name_index["X"].refused
  /\ name_index["X"].rows = 1
  /\ name_index["Y"].rows = 1

\* an update that commits over a row which another execution has changed
\* since this one read it
RaceCommit(w) ==
  /\ IngestCommit(w)
  /\ ing[w].existing # NoTrend
  /\ ing[w].existing # trends[ing[w].trend_data.name]

\* C18: when an execution commits its update of a Trend that the other
\* execution has changed since it was read, it goes on with its batch, the
\* stored score is the raw score of one of the two observations, and the
\* stored stage is the table's stage for the stored score and velocity.
C18_RaceLeavesConsistentTrend ==
  [][\A w \in ScrapeJobs :
        RaceCommit(w) =>
          LET n == ing[w].trend_data.name
          IN /\ ing'[w].pc \in {"query", "done"}
             /\ trends'[n].popularity_score
                  \in {ing[w].trend_data.popularity_score, trends[n].popularity_score}
             /\ trends'[n].lifecycle_stage =
                  determine_lifecycle_stage(trends'[n].popularity_score,
                                            trends'[n].velocity)]_vars

\* C19: the score of every Trend lies between 0 and 100.
C19_ScoreWithinScale ==
  \A n \in Names :
    trends[n] # NoTrend =>
      trends[n].popularity_score >= 0 /\ trends[n].popularity_score <= 100

\* C20: every call returns one of the five stages, the one the table gives:
\* below 20 rising above 50 percent and new otherwise; from 20 and below 60
\* rising above 20 percent, declining below -20 percent and stable otherwise;
\* from 60 declining below -10 percent and peak otherwise.
C20_ClassifyMatchesTable ==
  LET s == cls.popularity_score
      v == cls.velocity
      st == cls.stage
  IN st # "unset" =>
       /\ st \in Stages
       /\ (s < 20 /\ v > 5000) => st = "rising"
       /\ (s < 20 /\ v <= 5000) => st = "new"
       /\ (s >= 20 /\ s < 60 /\ v > 2000) => st = "rising"
       /\ (s >= 20 /\ s < 60 /\ v < 0 - 2000) => st = "declining"
       /\ (s >= 20 /\ s < 60 /\ v >= 0 - 2000 /\ v <= 2000) => st = "stable"
       /\ (s >= 60 /\ v < 0 - 1000) => st = "declining"
       /\ (s >= 60 /\ v >= 0 - 1000) => st = "peak"

\* C20 witness: the call with score 20 and velocity exactly 20 percent has
\* returned stable
C20_Witness ==
  /\ cls.popularity_score = 20
  /\ cls.velocity = 2000
  /\ cls.stage = "stable"

C22_ItemFaultIsSkipped ==
  /\ [][\A w \in ScrapeJobs :
          IngestItemFault(w) =>
            /\ trends' = trends
            /\ name_index' = name_index
            /\ ing'[w].remaining = ing[w].remaining - 1
            /\ ing'[w].pc = IF ing[w].remaining > 1 THEN "query" ELSE "done"]_vars
  /\ [][\A w \in ScrapeJobs :
          (IngestCommit(w) /\ ing[w].existing = trends[ing[w].trend_data.name])
            => trends' = upsert(trends, ing[w].trend_data)]_vars

\* C22 witness: an execution stored an item, skipped the next and stored the
\* one after it
C22_Witness ==
  /\ ingest_log.trail["scrape_trends"] = <<"stored", "skipped", "stored">>
  /\ trends["X"] # NoTrend
  /\ trends["Y"] # NoTrend

\* C23: approve of a pending item makes it approved and reject of a pending
\* item makes it rejected, each with the review time and the notes of the
\* call; mark-posted of a pending or approved item makes it posted with the
\* posted time and the external id of the call.
C23_ReviewCallsRecordTheirFields ==
  [][/\ \A i \in ItemIds, notes \in ReviewNotes :
          (found(i) /\ queue[i].status = "pending" /\ approve_queue_item(i, notes))
            => /\ queue'[i].status = "approved"
               /\ queue'[i].reviewed_at = "now"
               /\ queue'[i].reviewer_notes = notes
     /\ \A i \in ItemIds, notes \in ReviewNotes :
          (found(i) /\ queue[i].status = "pending" /\ reject_queue_item(i, notes))
            => /\ queue'[i].status = "rejected"
               /\ queue'[i].reviewed_at = "now"
               /\ queue'[i].reviewer_notes = notes
     /\ \A i \in ItemIds, t \in PostedTweetIds :
          (/\ found(i)
           /\ queue[i].status \in {"pending", "approved"}
           /\ mark_queue_item_posted(i, t))
            => /\ queue'[i].status = "posted"
               /\ queue'[i].posted_at = "now"
               /\ queue'[i].posted_tweet_id = t]_vars

\* C23 witness: one item was approved with notes and then marked posted, and
\* another was rejected
C23_Witness ==
  \E i, j \in DOMAIN queue :
    /\ queue[i].status = "posted"
    /\ queue[i].reviewer_notes = "ok"
    /\ queue[i].posted_tweet_id = "tw1"
    /\ queue[j].status = "rejected"
    /\ queue[j].reviewed_at = "now"
    /\ queue[j].posted_at = "None"

\* C24: the table holds at most one analytics row per day, and a row that is
\* in the table is never changed.
C24_OneAnalyticsRowPerDay ==
  /\ [](\A i, j \in DOMAIN analytics : analytics[i].date = analytics[j].date => i = j)
  /\ [][\A i \in DOMAIN analytics : i \in DOMAIN analytics' /\ analytics'[i] = analytics[i]]_vars

\* C25: once day D is over, the analytics row of day D holds the number of
\* tweets posted on day D.
C25_RowCountsItsWholeDay ==
  \A i \in DOMAIN analytics :
    analytics[i].date < today =>
      analytics[i].tweets_posted
        = Cardinality({t \in DOMAIN tweets : tweets[t].posted_at = analytics[i].date})

\* C26 as claimed: once start() has registered the jobs, status() lists every
\* one of them; a one-shot twin that has fired is listed without a next fire
\* time and every recurring job with one.
C26_StatusListsEveryRegisteredJob ==
  bot_pc = "started" =>
    \A j \in scheduled_jobs :
      \E e \in get_status.next_jobs :
        /\ e.id = j
        /\ e.name = job_name[j]
        /\ (j \in DateJobs /\ hist.date_runs[j] > 0) => e.next_run = "None"
        /\ j \in RecurringJobs => e.next_run # "None"

\* C26 amended: while the bot runs, status() lists exactly the jobs that are
\* in the job store, one entry each with id, label and a next fire time:
\* every recurring job start() registered, and each one-shot twin until it
\* fires; a twin that has fired is not listed.
C26_StatusListsJobsInStore ==
  bot_pc = "started" =>
    /\ {e.id : e \in get_status.next_jobs}
         = {j \in scheduled_jobs : j \in DateJobs => hist.date_runs[j] = 0}
    /\ Cardinality(get_status.next_jobs) = Cardinality({e.id : e \in get_status.next_jobs})
    /\ \A e \in get_status.next_jobs : e.name = job_name[e.id] /\ e.next_run # "None"

\* C26 witness: the scrape twin has fired and the primary-content twin has
\* not: status() lists the second and not the first
C26_Witness ==
  /\ bot_pc = "started"
  /\ hist.date_runs["initial_scrape"] = 1
  /\ "initial_scrape" \notin {e.id : e \in get_status.next_jobs}
  /\ \E e \in get_status.next_jobs : e.id \in {"initial_generate", "initial_post"}

\* C27: whatever runs of other ids are in flight and however long they stay
\* there, a registered job can fire while the scheduler runs, and a fire of
\* an id that has no run in flight starts a run on a free worker.
C27_OtherIdsDoNotWait ==
  /\ [](\A k \in JobIds : (sched_state = "running" /\ k \in jobs) => ENABLED Trigger(k))
  /\ [](~ hist.waited)
  /\ [][\A k \in JobIds :
          (Trigger(k) /\ instances[k] = 0) => instances'[k] = 1]_vars

\* C27 witness: a run has stayed in flight over its own next fire time, and
\* every other registered recurring job has started a run meanwhile
C27_Witness ==
  /\ sched_state = "running"
  /\ instances["update_metrics"] = 1
  /\ "update_metrics" \in missed
  /\ \A k \in jobs \ {"update_metrics"} : instances[k] = 1
  /\ Cardinality(jobs) = 5

\* C28: when the execution of the primary-content job has ended, on whatever
\* path, no store session that it opened is still open.
C28_SessionsReleased ==
  ex.pc = "done" => ex.sessions = 0

batch_names(batch) == {batch[i].name : i \in DOMAIN batch}

\* the score of the last item of the batch that carries the name
last_score(batch, n) ==
  LET I == {i \in DOMAIN batch : batch[i].name = n}
  IN batch[CHOOSE i \in I : \A k \in I : k <= i].popularity_score

BothOrdersRun == "ran" \in DOMAIN cls /\ cls.ran

BothScrape == job_func[cls.first.id] = job_func[cls.second.id]

\* C29: two executions of different job ids, run one after the other in
\* either order from the same Store, leave the same Store contents.
C29_ExecutionsCommute ==
  BothOrdersRun => cls.ab = cls.ba

\* C29, amended: two ingesting executions of different job ids whose batches
\* have no name in common leave the same Store in either order; for a name
\* both batches carry, the Trend is left with the score of the execution
\* that ran last.
C29_DisjointBatchesCommute ==
  BothOrdersRun /\ BothScrape =>
    /\ batch_names(cls.first.batch) \cap batch_names(cls.second.batch) = {}
         => cls.ab = cls.ba
    /\ \A n \in batch_names(cls.first.batch) \cap batch_names(cls.second.batch) :
         /\ \A st \in cls.ab :
              st.trends[n].popularity_score = last_score(cls.second.batch, n)
         /\ \A st \in cls.ba :
              st.trends[n].popularity_score = last_score(cls.first.batch, n)

C29_Witness ==
  /\ BothOrdersRun
  /\ BothScrape
  /\ cls.first.batch # <<>>
  /\ cls.second.batch # <<>>
  /\ batch_names(cls.first.batch) \cap batch_names(cls.second.batch) = {}
  /\ cls.store.trends[cls.first.batch[1].name] # NoTrend
  /\ cls.ab = cls.ba

\* an answer that cannot be decoded into the expected shape: no JSON,
\* invalid JSON, or a JSON object without the text
undecodable(reply) ==
  \/ reply.kind \in {"no_json", "bad_json"}
  \/ reply.kind = "json" /\ "text" \notin DOMAIN reply.body

\* C30: a generation step whose answer cannot be decoded into the expected
\* shape does not end the execution without a candidate: the candidate goes
\* on to evaluation, and for an answer that is not JSON its text is the raw
\* answer and its format, irony level and topics are unknown or empty.
C30_UndecodableAnswerYieldsCandidate ==
  [][\A reply \in GenReplies :
       undecodable(reply) /\ GenerateMemeContent(reply) =>
         /\ ex'.outcome # "no_meme"
         /\ ex'.pc = "evaluate"
         /\ reply.kind # "json" =>
              /\ ex'.meme_data.text = reply.text
              /\ ex'.meme_data.format = "None"
              /\ ex'.meme_data.irony_level = "unknown"
              /\ ex'.meme_data.topics = <<>>]_vars

\* the publishing call of the execution returned: the post was accepted and
\* its Tweet row committed
published(e) == e.tweet_id # 0 /\ e.writes >= 1

\* C31: in auto-post mode, an ended execution whose publishing call returned
\* has added exactly one Tweet, which carries the returned id, the generated
\* text and the generation metadata, and the execution called the
\* publishing service at most once.
C31_OnePublishedItemWithMetadata ==
  ex.pc = "done" /\ ~ content_generator_mode /\ published(ex) =>
    /\ Len(tweets) = Len(ex.store_at_start.tweets) + 1
    /\ tweets[Len(tweets)].tweet_id = ex.tweet_id
    /\ tweets[Len(tweets)].content = ex.meme_data.text
    /\ tweets[Len(tweets)].meta = tweet_meta(build_result(ex))
    /\ ex.publish_calls <= 1

filtered(tr) ==
  {n \in DOMAIN tr : /\ tr[n] # NoTrend
                     /\ tr[n].popularity_score >= 30
                     /\ tr[n].lifecycle_stage \in {"rising", "peak"}}

\* C32: the context an execution has chosen is the name of a Trend with
\* score at least 30 and stage rising or peak that fewer than 5 such Trends
\* outscore; it is the generic context exactly when no Trend passes the
\* filter, and then the generation call follows as for any other context.
C32_ContextFromTopFive ==
  /\ ex.context # "None" =>
       \/ ex.context = FallbackContext /\ filtered(trends) = {}
       \/ /\ ex.context \in filtered(trends)
          /\ Cardinality({m \in filtered(trends) :
                trends[m].popularity_score > trends[ex.context].popularity_score}) < 5
  /\ ex.pc = "context" /\ filtered(trends) = {} => ENABLED GetContext(FallbackContext)
  /\ ex.pc = "generate" =>
       \A reply \in ReviewGenReplies : ENABLED GenerateMemeContent(reply)

\* C32 witness: six Trends pass the filter, the execution has chosen one of
\* the five best and the generation call has answered
C32_Witness ==
  /\ Cardinality(filtered(trends)) = 6
  /\ \E m \in filtered(trends) : \A n \in filtered(trends) \ {m} :
        trends[m].popularity_score < trends[n].popularity_score
  /\ ex.context \in filtered(trends)
  /\ ex.pc = "evaluate"

InsightsRead == "used" \in DOMAIN cls /\ cls.ran

\* C33: the enrichment reads at most 3 media records, all with
\* meme_potential_score of at least 60, and no record left out has a higher
\* meme_potential_score than a record that was read.
C33_HighestScoringMediaUsed ==
  InsightsRead =>
    /\ Cardinality(cls.used) <= 3
    /\ \A i \in cls.used : cls.media[i].meme_potential_score >= 60
    /\ \A i \in cls.used, k \in DOMAIN cls.media \ cls.used :
         cls.media[k].meme_potential_score <= cls.media[i].meme_potential_score

\* C33, amended: the enrichment reads at most 3 media records, all with
\* meme_potential_score of at least 60, and they are the most recently
\* analyzed such records: no record of score at least 60 that was left out
\* was analyzed later than a record that was read, and none is left out
\* while fewer than 3 are read.
C33_MostRecentHighScoringMediaUsed ==
  InsightsRead =>
    /\ Cardinality(cls.used) <= 3
    /\ \A i \in cls.used : cls.media[i].meme_potential_score >= 60
    /\ \A i \in cls.used, k \in DOMAIN cls.media \ cls.used :
         cls.media[k].meme_potential_score >= 60 =>
           cls.media[k].analyzed_at <= cls.media[i].analyzed_at
    /\ Cardinality(cls.used) < 3 =>
         \A k \in DOMAIN cls.media \ cls.used : cls.media[k].meme_potential_score < 60

\* C33 witness: four records pass the threshold, three were read, and the
\* one left out is the oldest and has the highest score
C33_Witness ==
  /\ InsightsRead
  /\ Cardinality(cls.used) = 3
  /\ \E k \in DOMAIN cls.media \ cls.used :
       /\ cls.media[k].meme_potential_score = 90
       /\ \A i \in cls.used : /\ cls.media[i].meme_potential_score = 60
                              /\ cls.media[i].analyzed_at > cls.media[k].analyzed_at

\* the columns the review interface writes
ReviewFields == {"status", "reviewed_at", "reviewer_notes", "posted_at", "posted_tweet_id"}

\* C34: a step of the scheduled pipeline removes no queue item and leaves
\* every existing item as it is, adding at most one new pending item at the
\* end; an existing item changes only in a step of approve, reject or
\* mark-posted, and then only in its status, notes and timestamps.
C34_JobsOnlyInsertCandidates ==
  [][/\ Len(queue') >= Len(queue)
     /\ PipelineStep(ReviewGenReplies, ReviewEvalReplies) =>
          /\ \A i \in DOMAIN queue : queue'[i] = queue[i]
          /\ Len(queue') <= Len(queue) + 1
          /\ Len(queue') > Len(queue) => queue'[Len(queue')].status = "pending"
     /\ \A i \in DOMAIN queue :
          queue'[i] # queue[i] =>
            /\ ReviewStep
            /\ \A f \in DOMAIN queue[i] \ ReviewFields : queue'[i][f] = queue[i][f]]_vars

\* C34 witness: an execution has queued a second candidate after the first
\* one had been approved, and the first is still as the review left it
C34_Witness ==
  /\ Len(queue) = 2
  /\ ex.outcome = "queued"
  /\ Len(ex.store_at_start.queue) = 1
  /\ ex.store_at_start.queue[1].status = "approved"
  /\ queue[1] = ex.store_at_start.queue[1]
  /\ queue[2].status = "pending"

\* the columns a metric refresh writes
MetricFields == {"likes", "retweets", "replies", "impressions", "last_updated"}

\* C35: a step of the metric-refresh job adds and removes no Tweet and
\* changes no column of a Tweet other than its four counters and its update
\* time; a round whose fetch fails leaves every Tweet as it is and goes on
\* with the next tweet, a round whose fetch succeeds stores the fetched
\* counters, and the loop ends only when no tweet is left.
C35_RefreshChangesCountersOnly ==
  [][/\ RefreshStep =>
          /\ Len(tweets') = Len(tweets)
          /\ \A i \in DOMAIN tweets :
               \A f \in DOMAIN tweets[i] \ MetricFields : tweets'[i][f] = tweets[i][f]
     /\ \A reply \in MetricReplies :
          RefreshTweet(reply) =>
            /\ cls'.pc = "loop"
            /\ cls'.remaining = Tail(cls.remaining)
            /\ reply.kind = "None" => tweets' = tweets
            /\ reply.kind # "None" =>
                 \A i \in DOMAIN tweets :
                   IF tweets[i].tweet_id = Head(cls.remaining)
                   THEN /\ tweets'[i].likes = reply.likes
                        /\ tweets'[i].retweets = reply.retweets
                        /\ tweets'[i].replies = reply.replies
                        /\ tweets'[i].impressions = reply.impressions
                   ELSE tweets'[i] = tweets[i]
     /\ RefreshFinish => cls.remaining = <<>>]_vars

\* C35 witness: a refresh of two tweets has ended; the fetch for the first
\* failed and its counters are as posted, the second holds fetched counters
\* and still its generation metadata
C35_Witness ==
  /\ "failed" \in DOMAIN cls
  /\ cls.pc = "done"
  /\ Len(tweets) = 2
  /\ cls.failed = {tweets[1].tweet_id}
  /\ cls.refreshed = {tweets[2].tweet_id}
  /\ tweets[1].likes = 0
  /\ tweets[2].likes = 5
  /\ tweets[2].meta # NoMeta

\* C36: an update that stores a score of the 20-60 band which lies more
\* than 20 percent under the positive score the Trend held leaves the stage
\* declining, and one that lies more than 20 percent over it leaves the
\* stage rising, so that these two stages are reached through ingest.
C36_DecliningAndRisingReached ==
  [][\A w \in ScrapeJobs :
        LET d == ing[w].trend_data
            old == trends[d.name].popularity_score
        IN (/\ UpdateCommit(w)
            /\ old > 0
            /\ d.popularity_score >= 20
            /\ d.popularity_score < 60) =>
             /\ (old - d.popularity_score) * 100 > 20 * old
                  => trends'[d.name].lifecycle_stage = "declining"
             /\ (d.popularity_score - old) * 100 > 20 * old
                  => trends'[d.name].lifecycle_stage = "rising"]_vars

\* C37: stop() never raises, in whatever state it is called, and when it has
\* ended is_running is false.
C37_StopNeverRaises ==
  /\ bot_pc # "stop_raised"
  /\ bot_pc = "stopped" => ~ is_running

\* C38: the candidate generate_meme_tweet has returned takes its text,
\* format and topics from the answer of the last attempt made and its
\* evaluation, score and should_post from the evaluation of that same
\* attempt; after a regeneration both are the second attempt's.
C38_ResultFromOneAttempt ==
  Returned(ex) =>
    /\ ex.generated = ex.attempt
    /\ ex.evaluated = ex.attempt
    /\ build_result(ex).text = ex.meme_data.text
    /\ build_result(ex).meme_format = Get(ex.meme_data, "format", "None")
    /\ build_result(ex).topics = Get(ex.meme_data, "topics", <<>>)
    /\ build_result(ex).evaluation = ex.evaluation
    /\ build_result(ex).quality_score = Get(ex.evaluation, "overall_score", 5)
    /\ build_result(ex).should_post = Get(ex.evaluation, "should_post", TRUE)

\* C38 witness: a regenerated candidate was returned whose second answer and
\* second evaluation both differ from the first ones
C38_Witness ==
  /\ Returned(ex)
  /\ ex.attempt = 2
  /\ ex.generated = 2
  /\ ex.evaluated = 2
  /\ ex.first_eval # ex.evaluation
  /\ ex.meme_data.text = "t2"
  /\ build_result(ex).quality_score = 8

\* C39: an update of the Trend of a name leaves every other Trend and the
\* Trend's first_seen as they are and never sets its last_seen back; every
\* Trend has first_seen <= last_seen.
C39_UpdateKeepsFirstSeenAndOrder ==
  /\ [](\A n \in Names : trends[n] # NoTrend => trends[n].first_seen <= trends[n].last_seen)
  /\ [][\A w \in ScrapeJobs :
          (IngestCommit(w) /\ ing[w].existing # NoTrend) =>
            LET n == ing[w].trend_data.name
            IN /\ \A m \in Names \ {n} : trends'[m] = trends[m]
               /\ trends'[n].first_seen = trends[n].first_seen
               /\ trends'[n].last_seen >= trends[n].last_seen]_vars

\* C40: in generator mode the publishing service is never called and no
\* Tweet is stored, whether a scheduled job or post_now started the
\* execution; what has been generated is in the queue, as pending items.
C40_GeneratorModeNeverPublishes ==
  content_generator_mode =>
    /\ twitter = 0
    /\ tweets = <<>>
    /\ ex.publish_calls = 0
    /\ ex.pc \notin {"publish", "save_tweet", "metadata"}
    /\ \A i \in DOMAIN queue : queue[i].status = "pending"

====
